---- MODULE Spec2Model ----
(***************************************************************************)
(* The fetch pipeline of x-research: the unified API of lib/api.ts (Bird   *)
(* CLI first, Composio as fallback), the paged Composio search it falls    *)
(* back to, and the cache layer in front of it.                            *)
(*                                                                         *)
(* One logical call is a run of steps: the exported function is entered    *)
(* (search / thread / profile / getTweet), the Bird CLI is executed        *)
(* (birdSearch / birdThread / birdProfile / birdTweet), the Composio key   *)
(* is resolved (ComposioFallback), and composioSearch issues its page      *)
(* requests (composioExec) with the pacing delay between them (Pace).      *)
(* `trace` records every observable event of the call in order.            *)
(***************************************************************************)
EXTENDS Integers, Sequences, FiniteSets, TLC

\* ------------------------------------------------------------------ bounds
MaxPages == 3        \* largest page count a caller passes
MaxPageLen == 1      \* most items on one page of results
MaxTicks == 4        \* clock steps the cache is observed over
MaxAsked == 6        \* largest page count asked of a search whose pages are all empty
MaxCap == 101        \* largest result cap (maxResults, count) a caller passes
MaxLen == 3          \* longest record sequence handed to sortBy, filterEngagement, dedupe
MaxMetric == 1       \* largest metric count on a record

\* --------------------------------------------------------------- constants
NoKey == ""          \* getComposioKey() found no key
Ids == {"a", "b"}    \* tweet ids
\* meta.next_token: the provider's cursor. The response to the request for
\* page k (from 0) carries either no token or the cursor of page k + 1, so
\* the tokens of different pages differ. A falsy token ("" or undefined) is
\* NoToken.
NoToken == 0
TokenAfter(k) == k + 1
NotGiven == 0        \* opts.pages absent (or 0: `opts.pages || 1` treats both alike)
ThreadDefaultPages == 2
DefaultPages == 1
CacheTtlMin == 15    \* the cache's TTL, in minutes
TickMin == 5         \* minutes one clock step advances
MinCap == 10         \* "Composio requires max_results >= 10"
ProfileDefaultCount == 20
ProfileMaxCount == 100
DocMaxPages == 5     \* "--pages N  Pages to fetch, 1-5"
Undefined == -1      \* a member the provider's JSON does not have
NotSupplied == -1    \* opts.minLikes / opts.minImpressions not given

\* ------------------------------------------------------------------- state
VARIABLES
  birdInstalled,   \* `which bird` succeeds
  envKey,          \* process.env.COMPOSIO_API_KEY ("" when unset)
  fileKey,         \* key matched in /root/.openclaw/.env ("" when none)
  pc,              \* "idle", "bird", "fallback", "page", "sleep", "done";
                   \* "served" once the cache layer has handed over a result
  op,              \* the exported function being run
  arg,             \* its arguments: [id, pages]
  pages,           \* composioSearch: const pages
  page,            \* composioSearch: loop counter
  nextToken,       \* composioSearch: let nextToken
  allTweets,       \* composioSearch: let allTweets
  trace,           \* events of the current call, in order
  result,          \* what the call returned or threw
  cache,           \* cache layer: fingerprint -> [records, storedAt]
  now,             \* the clock, in minutes
  viaCache,        \* the current call came in through the cache layer
  fin,             \* what a helper (parseTweet, sortBy, ...) is called with
  fout             \* the helper called, its options and what it returned

vars == <<birdInstalled, envKey, fileKey, pc, op, arg, pages, page,
          nextToken, allTweets, trace, result, cache, now, viaCache,
          fin, fout>>

env == <<birdInstalled, envKey, fileKey>>
locals == <<pages, page, nextToken, allTweets>>
cachevars == <<cache, now, viaCache>>
helper == <<fin, fout>>

\* ------------------------------------------------------------------ values
\* A canonical Tweet (api.ts 53-73) reduced to its id; src is the adapter
\* whose normalizer produced it (parseBirdTweet or parseTweet).
Tweet(id, src) == [id |-> id, src |-> src]

RECURSIVE SeqsUpTo(_, _)
SeqsUpTo(S, n) ==
  IF n = 0 THEN {<<>>}
  ELSE LET shorter == SeqsUpTo(S, n - 1)
       IN shorter \cup {Append(s, x) : s \in {t \in shorter : Len(t) = n - 1}, x \in S}

\* the item lists a page (or a Bird run) can carry
Bodies == SeqsUpTo(Ids, MaxPageLen)

\* the `data` member of a Composio result: an array of items, absent, or
\* something that is not an array
Payload(shape, items) == [shape |-> shape, items |-> items]
Payloads ==
  {Payload("array", b) : b \in Bodies} \cup {Payload("absent", <<>>), Payload("notarray", <<>>)}

\* (`cap` is the max_results a page request is sent with, 0 on other events)
Ev(e, tok, status, data) ==
  [ev |-> e, tok |-> tok, status |-> status, data |-> data, cap |-> 0]
Req(tok, cap) == [Ev("req", tok, "", <<>>) EXCEPT !.cap = cap]
\* the arguments of a call: the id (query, conversation, user or tweet),
\* opts.pages and the result cap (opts.maxResults / opts.count)
Args(id, p, c) == [id |-> id, pages |-> p, count |-> c]
NoRes == [kind |-> "none", err |-> "", user |-> "", tweets |-> <<>>]
Thrown(e) == [kind |-> "error", err |-> e, user |-> "", tweets |-> <<>>]
Returned(k, u, ts) == [kind |-> k, err |-> "", user |-> u, tweets |-> ts]

\* --------------------------------------------------------- pure functions
\* (variant: the probe always answers yes)
birdAvailable_always == TRUE

birdAvailable == birdInstalled

getComposioKey ==
  IF envKey # NoKey THEN envKey
  ELSE IF fileKey # NoKey THEN fileKey
  ELSE NoKey

\* parseBirdTweet mapped over the CLI's JSON array
parseBirdTweets(ids) == [i \in 1..Len(ids) |-> Tweet(ids[i], "bird")]

\* parseTweets: response.data || []; not an array or empty -> []
parseTweets(data) ==
  IF data.shape # "array" THEN <<>>
  ELSE [i \in 1..Len(data.items) |-> Tweet(data.items[i], "composio")]

\* opts.pages || 1 (composioSearch), opts.pages || 2 (composioThread);
\* composioProfile and composioTweet pass no pages
PagesFor(o, p) ==
  CASE o = "search" -> IF p # NotGiven THEN p ELSE DefaultPages
    [] o = "thread" -> IF p # NotGiven THEN p ELSE ThreadDefaultPages
    [] OTHER -> DefaultPages

\* birdSearch, birdThread and birdProfile rethrow a failed run as an Error;
\* birdTweet catches it and returns null
\* (variant: every Bird wrapper swallows its failure like birdTweet)
BirdRethrows_never(o) == FALSE

BirdRethrows(o) == o # "getTweet"

\* (variant: the `return` before `await birdX(...)` is missing)
BirdNextPc_fallsThrough(o, ok) ==
  IF ok \/ BirdRethrows(o) THEN "fallback" ELSE "done"

\* (variant: a failed Bird run is neither returned nor passed on)
BirdNextPc_stuck(o, ok) == IF ok THEN "done" ELSE "stuck"

\* where a Bird run leaves the call: `return await birdX(...)` ends it on
\* success, a caught failure falls through to the Composio key check, and
\* birdTweet's null is returned like a success
BirdNextPc(o, ok) ==
  IF ok THEN "done"
  ELSE IF BirdRethrows(o) THEN "fallback"
  ELSE "done"

\* `v || d`: an absent value and 0 both give the default
OrDefault(v, d) == IF v = NotGiven THEN d ELSE v
Max(a, b) == IF a >= b THEN a ELSE b
Min(a, b) == IF a <= b THEN a ELSE b

\* (variant: the caller's cap is sent as given)
maxResults_asGiven(cap) == OrDefault(cap, MinCap)

\* composioSearch: const maxResults = Math.max(opts.maxResults || 10, 10)
maxResults(cap) == Max(OrDefault(cap, MinCap), MinCap)

\* the maxResults each wrapper hands to composioSearch: search passes the
\* caller's, composioThread none, composioProfile Math.min(count || 20, 100),
\* composioTweet 10
CapPassed(o, c) ==
  CASE o = "profile" -> Min(OrDefault(c, ProfileDefaultCount), ProfileMaxCount)
    [] o = "getTweet" -> MinCap
    [] o = "thread" -> NotGiven
    [] OTHER -> c

\* (variant: every page request goes out without a token)
RequestToken_none(tok) == NoToken

\* composioSearch: if (nextToken) params.next_token = nextToken
RequestToken(tok) == tok

\* (variant: a failed request is swallowed and the page asked for again)
FailedRequestNextPc_retries(st) == "page"

\* `await composioExec(...)` stands in no try block: the error thrown for a
\* failed request leaves the loop and the call
FailedRequestNextPc(st) == "done"

\* (variant: the error is caught and the pages fetched so far are returned)
FailedRequestResult_partial(st, acc) == Returned("tweets", "", acc)

\* the error of the failed request is what the call throws; allTweets is
\* dropped with composioSearch's frame
FailedRequestResult(st, acc) == Thrown(st)

\* (variant: the loop never breaks on a missing token)
LoopBreaks_never(tok, tweets) == FALSE

\* (variant: the loop also stops on a page without records)
LoopBreaks_onEmptyPage(tok, tweets) == tok = NoToken \/ tweets = <<>>

\* composioSearch: nextToken = result.meta?.next_token; if (!nextToken) break;
\* (tweets are the records of the page just parsed: the test does not read them)
LoopBreaks(tok, tweets) == tok = NoToken

\* (variant: the delay is not guarded by the page counter)
PacesAfter_always(pg, pgs) == TRUE

\* composioSearch line 315: if (page < pages - 1) await setTimeout(500)
PacesAfter(pg, pgs) == pg < pgs - 1

\* composioTweet: tweets.find(t => t.id === tweetId) || tweets[0] || null
RECURSIVE FindById(_, _)
FindById(ts, id) ==
  IF ts = <<>> THEN <<>>
  ELSE IF Head(ts).id = id THEN <<Head(ts)>>
  ELSE FindById(Tail(ts), id)

composioTweetPick(ts, id) ==
  IF FindById(ts, id) # <<>> THEN FindById(ts, id)
  ELSE IF ts # <<>> THEN <<Head(ts)>>
  ELSE <<>>

\* what each composio* wrapper returns from the records composioSearch gives
ComposioReturn(o, ts, id) ==
  CASE o = "profile" ->
         Returned("profile", IF Len(ts) > 0 THEN "tweets[0]" ELSE "username", ts)
    [] o = "getTweet" ->
         IF composioTweetPick(ts, id) = <<>> THEN Returned("null", "", <<>>)
         ELSE Returned("tweet", "", composioTweetPick(ts, id))
    [] OTHER -> Returned("tweets", "", ts)

\* the elements of x at the indices in S, in index order
RECURSIVE SubSeqAt(_, _)
SubSeqAt(x, S) ==
  IF S = {} THEN <<>>
  ELSE LET i == CHOOSE k \in S : \A j \in S : k <= j IN
       <<x[i]>> \o SubSeqAt(x, S \ {i})

\* (variant: dropping a record also forgets that its id was seen)
RECURSIVE dedupeFrom_forgets(_, _)
dedupeFrom_forgets(ts, seen) ==
  IF ts = <<>> THEN <<>>
  ELSE IF Head(ts).id \in seen THEN dedupeFrom_forgets(Tail(ts), seen \ {Head(ts).id})
  ELSE <<Head(ts)>> \o dedupeFrom_forgets(Tail(ts), seen \cup {Head(ts).id})

\* (variant: of the records with one id the last is retained)
dedupe_keepsLast(ts) ==
  SubSeqAt(ts, {i \in DOMAIN ts : \A j \in DOMAIN ts : j > i => ts[j].id # ts[i].id})

\* dedupe: keep the first record of each id, in input order
RECURSIVE dedupeFrom(_, _)
dedupeFrom(ts, seen) ==
  IF ts = <<>> THEN <<>>
  ELSE IF Head(ts).id \in seen THEN dedupeFrom(Tail(ts), seen)
  ELSE <<Head(ts)>> \o dedupeFrom(Tail(ts), seen \cup {Head(ts).id})

dedupe(ts) == dedupeFrom(ts, {})

\* --------------------------------------------------- normalizers, helpers
\* A raw item as an adapter's JSON gives it. Only the metrics block matters
\* to the normalizers' defaults: `hasMetrics` says whether the item has a
\* `metrics` (Bird) / `public_metrics` (Composio) member at all, and `m`
\* maps each counter's name to its value, or to Undefined when the member is
\* not there.
BirdNames == {"likes", "retweets", "replies", "quotes", "impressions"}
ComposioNames == {"like_count", "retweet_count", "reply_count", "quote_count",
                  "impression_count", "bookmark_count"}
RawValues == {Undefined} \cup (0..MaxMetric)
RawItem(api, has, m) == [api |-> api, id |-> "a", hasMetrics |-> has, m |-> m]
NoRaw == RawItem("none", FALSE, <<>>)
RawItems(api, names) ==
  {RawItem(api, TRUE, m) : m \in [names -> RawValues]}
    \cup {RawItem(api, FALSE, [n \in names |-> Undefined])}

\* `v || 0`
OrZero(v) == IF v = Undefined \/ v = 0 THEN 0 ELSE v

Metrics(l, rt, rp, q, i, b) ==
  [likes |-> l, retweets |-> rt, replies |-> rp, quotes |-> q,
   impressions |-> i, bookmarks |-> b]
Normalized(id, metrics) == [status |-> "ok", value |-> <<[id |-> id, metrics |-> metrics]>>]
TypeError == [status |-> "TypeError", value |-> <<>>]

\* parseBirdTweet reads t.metrics.likes: a property of undefined when the
\* item has no metrics member
parseBirdTweet(t) ==
  IF ~t.hasMetrics THEN TypeError
  ELSE Normalized(t.id, Metrics(OrZero(t.m["likes"]), OrZero(t.m["retweets"]),
                                OrZero(t.m["replies"]), OrZero(t.m["quotes"]),
                                OrZero(t.m["impressions"]), 0))

\* parseTweet: const m = t.public_metrics || {}
parseTweet(t) ==
  LET m == IF t.hasMetrics THEN t.m ELSE [n \in ComposioNames |-> Undefined] IN
  Normalized(t.id, Metrics(OrZero(m["like_count"]), OrZero(m["retweet_count"]),
                           OrZero(m["reply_count"]), OrZero(m["quote_count"]),
                           OrZero(m["impression_count"]), OrZero(m["bookmark_count"])))

\* A normalized record as sortBy, filterEngagement and dedupe see it: its id
\* and the two metrics the thresholds name (sortBy reads any metric by its
\* name in the same way).
Rec(id, l, i) == [id |-> id, metrics |-> [likes |-> l, impressions |-> i]]
Recs == {Rec(id, l, i) : id \in Ids, l \in 0..MaxMetric, i \in 0..MaxMetric}
SortMetrics == {"likes", "impressions"}

\* (variant: ascending comparator)
compare_ascending(a, b, metric) == a.metrics[metric] - b.metrics[metric]

\* the comparator of sortBy
compare(a, b, metric) == b.metrics[metric] - a.metrics[metric]

\* Array.prototype.sort is stable: an element goes before the first one the
\* comparator puts strictly after it, so behind the equal ones that came
\* earlier in the input
RECURSIVE SortInsert(_, _, _)
SortInsert(t, s, metric) ==
  IF s = <<>> THEN <<t>>
  ELSE IF compare(Head(s), t, metric) > 0 THEN <<t>> \o s
  ELSE <<Head(s)>> \o SortInsert(t, Tail(s), metric)

RECURSIVE StableSort(_, _)
StableSort(ts, metric) ==
  IF ts = <<>> THEN <<>>
  ELSE SortInsert(ts[Len(ts)], StableSort(SubSeq(ts, 1, Len(ts) - 1), metric), metric)

\* [...tweets].sort(...): the copy is sorted, the argument is left alone
sortBy(tweets, metric) == StableSort(tweets, metric)

\* `opts.minLikes && ...`: an absent threshold and 0 are both falsy
Truthy(v) == v # NotSupplied /\ v # 0

\* (variant: a record exactly at the threshold is dropped too)
Rejects_atThreshold(value, min) == Truthy(min) /\ value <= min

\* if (opts.min && t.metrics.x < opts.min) return false
Rejects(value, min) == Truthy(min) /\ value < min

Opts(ml, mi) == [minLikes |-> ml, minImpressions |-> mi]
Thresholds == {NotSupplied} \cup (0..MaxMetric)
Keeps(t, opts) ==
  /\ ~Rejects(t.metrics.likes, opts.minLikes)
  /\ ~Rejects(t.metrics.impressions, opts.minImpressions)

filterEngagement(tweets, opts) == SelectSeq(tweets, LAMBDA t : Keeps(t, opts))

\* what a helper is called with, and what came of the call
Input(recs, raw) == [recs |-> recs, raw |-> raw]
NoInput == Input(<<>>, NoRaw)
Output(fn, metric, opts, r) ==
  [fn |-> fn, metric |-> metric, opts |-> opts, status |-> r.status, value |-> r.value]
Value(v) == [status |-> "ok", value |-> v]
NoOutput == Output("none", "", Opts(NotSupplied, NotSupplied), [status |-> "", value |-> <<>>])

\* ------------------------------------------------------------ cache layer
\* the fingerprint of a search: operation kind, query text and page count
fingerprint(q, p) == <<"search", q, p>>
\* (the searches made through the cache layer give no page count)
Fingerprints == {fingerprint(q, NotGiven) : q \in Ids}
NoEntry == [records |-> <<>>, storedAt |-> -1]

\* (variant: an entry exactly as old as the TTL already counts as expired)
CacheExpired_atTtl(e) == now - e.storedAt >= CacheTtlMin

\* an entry is expired once now - storedAt exceeds the TTL
CacheExpired(e) == now - e.storedAt > CacheTtlMin

\* get(fingerprint) finds a live entry
CacheHas(f) == cache[f] # NoEntry /\ ~CacheExpired(cache[f])
CacheGet(f) == cache[f].records

\* put(fingerprint, records): unconditional overwrite, stamped with the clock
CachePut(f, recs) == [cache EXCEPT ![f] = [records |-> recs, storedAt |-> now]]

\* --------------------------------------------------------------- actions
Init ==
  /\ birdInstalled \in BOOLEAN
  /\ envKey \in {NoKey, "kenv"}
  /\ fileKey \in {NoKey, "kfile"}
  /\ pc = "idle"
  /\ op = "search"
  /\ arg = Args("a", NotGiven, NotGiven)
  /\ pages = 0 /\ page = 0 /\ nextToken = NoToken /\ allTweets = <<>>
  /\ trace = <<>>
  /\ result = NoRes
  /\ cache = [f \in Fingerprints |-> NoEntry]
  /\ now = 0
  /\ viaCache = FALSE
  /\ fin = NoInput
  /\ fout = NoOutput

\* entry of an exported function: if (birdAvailable()) try bird ... else fall
\* through to the Composio key check
EnterWith(o, id, p, c) ==
  /\ pc = "idle"
  /\ op' = o
  /\ arg' = Args(id, p, c)
  /\ pc' = IF birdAvailable THEN "bird" ELSE "fallback"
  /\ trace' = <<Ev("call", NoToken, "", <<>>)>>
  /\ result' = NoRes
  /\ UNCHANGED <<helper, env, locals, cache, now>>

\* (a call that gives no result cap)
Enter(o, id, p) == EnterWith(o, id, p, NotGiven)

\* the query, conversation id or username is a string the model does not
\* look into; `pages` is opts.pages, a page count >= 1 or NotGiven
search == \E p \in NotGiven..MaxPages : Enter("search", "a", p) /\ viaCache' = FALSE
thread == \E p \in NotGiven..MaxPages : Enter("thread", "a", p) /\ viaCache' = FALSE
profile == Enter("profile", "a", NotGiven) /\ viaCache' = FALSE
getTweet == \E id \in Ids : Enter("getTweet", id, NotGiven) /\ viaCache' = FALSE

\* a Bird CLI run: execSync + JSON.parse + parseBirdTweet, which either
\* yields records or fails
BirdRun(o) ==
  /\ pc = "bird" /\ op = o
  /\ \/ \E b \in Bodies :
          /\ (o = "getTweet") => Len(b) = 1
          /\ trace' = Append(trace, Ev("birdOk", NoToken, "", b))
          /\ result' = CASE o = "profile" -> Returned("profile", "bird", parseBirdTweets(b))
                         [] o = "getTweet" -> Returned("tweet", "", parseBirdTweets(b))
                         [] OTHER -> Returned("tweets", "", parseBirdTweets(b))
          /\ pc' = BirdNextPc(o, TRUE)
     \/ IF BirdRethrows(o)
        THEN \* caught by the caller: console.error(...), then fall through
             /\ trace' = trace \o <<Ev("birdFail", NoToken, "", <<>>),
                                    Ev("log", NoToken, "", <<>>)>>
             /\ pc' = BirdNextPc(o, FALSE)
             /\ UNCHANGED result
        ELSE \* birdTweet's own catch: return null
             /\ trace' = Append(trace, Ev("birdFail", NoToken, "", <<>>))
             /\ result' = Returned("null", "", <<>>)
             /\ pc' = BirdNextPc(o, FALSE)
  /\ UNCHANGED <<helper, env, op, arg, locals, cachevars>>

birdSearch == BirdRun("search")
birdThread == BirdRun("thread")
birdProfile == BirdRun("profile")
birdTweet == BirdRun("getTweet")

\* const key = getComposioKey(); if (!key) throw ...; return composioX(...)
\* up to composioSearch's first loop test
ComposioFallback ==
  /\ pc = "fallback"
  /\ IF getComposioKey = NoKey
     THEN /\ result' = Thrown("Neither Bird CLI nor COMPOSIO_API_KEY available")
          /\ pc' = "done"
          /\ UNCHANGED locals
     ELSE /\ pages' = PagesFor(op, arg.pages)
          /\ page' = 0
          /\ nextToken' = NoToken
          /\ allTweets' = <<>>
          /\ IF 0 < PagesFor(op, arg.pages)
             THEN pc' = "page" /\ UNCHANGED result
             ELSE pc' = "done" /\ result' = ComposioReturn(op, <<>>, arg.id)
  /\ UNCHANGED <<helper, env, op, arg, trace, cachevars>>

\* one iteration of composioSearch's loop: the request is sent with the
\* current nextToken, and the response either throws out of the whole call
\* or is parsed, accumulated and tested for the next iteration
composioExec ==
  /\ pc = "page"
  /\ LET req == Req(RequestToken(nextToken), maxResults(CapPassed(op, arg.count))) IN
     \/ \E st \in {"transport", "http", "nopayload"} :
          /\ trace' = trace \o <<req, Ev("resp", NoToken, st, <<>>)>>
          /\ result' = FailedRequestResult(st, allTweets)
          /\ pc' = FailedRequestNextPc(st)
          /\ UNCHANGED locals
     \/ \E data \in Payloads, tok \in {NoToken, TokenAfter(page)} :
          LET all == allTweets \o parseTweets(data) IN
          /\ trace' = trace \o <<req, Ev("resp", tok, "ok", data.items)>>
          /\ allTweets' = all
          /\ nextToken' = tok
          /\ IF LoopBreaks(tok, parseTweets(data))
             THEN /\ pc' = "done"
                  /\ result' = ComposioReturn(op, all, arg.id)
                  /\ UNCHANGED page
             ELSE IF PacesAfter(page, pages)
             THEN /\ pc' = "sleep"
                  /\ UNCHANGED <<page, result>>
             ELSE IF page + 1 < pages
             THEN /\ pc' = "page"
                  /\ page' = page + 1
                  /\ UNCHANGED result
             ELSE /\ pc' = "done"
                  /\ page' = page + 1
                  /\ result' = ComposioReturn(op, all, arg.id)
          /\ UNCHANGED pages
  /\ UNCHANGED <<helper, env, op, arg, cachevars>>

\* await new Promise(r => setTimeout(r, 500)); page++ and the loop test
Pace ==
  /\ pc = "sleep"
  /\ trace' = Append(trace, Ev("delay", NoToken, "", <<>>))
  /\ page' = page + 1
  /\ IF page + 1 < pages
     THEN pc' = "page" /\ UNCHANGED result
     ELSE pc' = "done" /\ result' = ComposioReturn(op, allTweets, arg.id)
  /\ UNCHANGED <<helper, env, op, arg, pages, nextToken, allTweets, cachevars>>

\* a search through the cache layer: a live entry is returned as stored and
\* no adapter runs; otherwise the request goes to the router
cachedSearch ==
  \E q \in Ids, p \in {NotGiven} :
    IF CacheHas(fingerprint(q, p))
    THEN /\ pc = "idle"
         /\ op' = "search"
         /\ arg' = Args(q, p, NotGiven)
         /\ trace' = <<Ev("cacheHit", NoToken, "", <<>>)>>
         /\ result' = Returned("tweets", "", CacheGet(fingerprint(q, p)))
         /\ pc' = "served"
         /\ viaCache' = TRUE
         /\ UNCHANGED <<helper, env, locals, cache, now>>
    ELSE Enter("search", q, p) /\ viaCache' = TRUE

\* the router's call has ended: a fetched result is deduplicated and written
\* back before it is handed to the caller; an error is passed on and
\* nothing is stored
cacheStore ==
  /\ pc = "done" /\ viaCache
  /\ IF result.kind = "tweets"
     THEN /\ result' = Returned("tweets", "", dedupe(result.tweets))
          /\ cache' = CachePut(fingerprint(arg.id, arg.pages), dedupe(result.tweets))
     ELSE UNCHANGED <<result, cache>>
  /\ pc' = "served"
  /\ UNCHANGED <<helper, env, op, arg, locals, trace, now, viaCache>>

\* the command is over; the next one starts from a fresh call state
cachedSearchReturn ==
  /\ pc = "served"
  /\ pc' = "idle"
  /\ trace' = <<>>
  /\ result' = NoRes
  /\ pages' = 0 /\ page' = 0 /\ nextToken' = NoToken /\ allTweets' = <<>>
  /\ UNCHANGED <<helper, env, op, arg, cache, now, viaCache>>

\* time passes between two calls
Tick ==
  /\ pc = "idle"
  /\ now < MaxTicks * TickMin
  /\ now' = now + TickMin
  /\ UNCHANGED <<helper, env, pc, op, arg, locals, trace, result, cache, viaCache>>

Next ==
  \/ search \/ thread \/ profile \/ getTweet
  \/ birdSearch \/ birdThread \/ birdProfile \/ birdTweet
  \/ ComposioFallback
  \/ composioExec
  \/ Pace

Spec == Init /\ [][Next]_vars

\* Every adapter call resolves: a started Bird execution (execSync) exits or
\* fails, the key check is straight-line code, a request that was sent
\* (fetch) gets its reply or its error, and the pacing timer fires.
Fairness ==
  /\ WF_vars(birdSearch \/ birdThread \/ birdProfile \/ birdTweet)
  /\ WF_vars(ComposioFallback)
  /\ WF_vars(composioExec)
  /\ WF_vars(Pace)

SpecLive == Spec /\ Fairness

\* the search command: every search goes through the cache layer. It gives
\* no page count, so composioSearch fetches one page and never paces.
NextCache ==
  \/ cachedSearch
  \/ birdSearch
  \/ ComposioFallback
  \/ composioExec
  \/ cacheStore
  \/ cachedSearchReturn
  \/ Tick

SpecCache == Init /\ [][NextCache]_vars

\* --------------------------------------------- searches of many pages
\* A search asked for up to MaxAsked pages, against a provider whose pages
\* all come back without records: the loop of composioSearch is driven by
\* the page count and the tokens alone.
searchPages ==
  \E p \in NotGiven..MaxAsked : Enter("search", "a", p) /\ viaCache' = FALSE

emptyPage ==
  /\ composioExec
  /\ trace'[Len(trace')].status = "ok"
  /\ trace'[Len(trace')].data = <<>>

NextPages ==
  \/ searchPages
  \/ birdSearch
  \/ ComposioFallback
  \/ emptyPage
  \/ Pace

SpecPages == Init /\ [][NextPages]_vars

\* ------------------------------------------------- calls with a result cap
\* search and profile called with a result cap of the caller's choosing
\* (search without page count: one page), next to thread and getTweet
searchCapped ==
  \E c \in NotGiven..MaxCap : EnterWith("search", "a", NotGiven, c) /\ viaCache' = FALSE

profileCounted ==
  \E c \in NotGiven..MaxCap : EnterWith("profile", "a", NotGiven, c) /\ viaCache' = FALSE

threadDefault == Enter("thread", "a", NotGiven) /\ viaCache' = FALSE

NextCapped ==
  \/ searchCapped \/ profileCounted \/ threadDefault \/ getTweet
  \/ birdSearch \/ birdThread \/ birdProfile \/ birdTweet
  \/ ComposioFallback
  \/ composioExec
  \/ Pace

SpecCapped == Init /\ [][NextCapped]_vars

\* ------------------------------------------------- the helpers on their own
\* The normalizers and the post-hoc helpers are pure functions: each is
\* called once on an input drawn from the bounded sets above.
router == <<env, pc, op, arg, locals, trace, result, cachevars>>

InitHelpers ==
  /\ birdInstalled = FALSE /\ envKey = NoKey /\ fileKey = NoKey
  /\ pc = "idle"
  /\ op = "search"
  /\ arg = Args("a", NotGiven, NotGiven)
  /\ pages = 0 /\ page = 0 /\ nextToken = NoToken /\ allTweets = <<>>
  /\ trace = <<>>
  /\ result = NoRes
  /\ cache = [f \in Fingerprints |-> NoEntry]
  /\ now = 0
  /\ viaCache = FALSE
  /\ \/ \E recs \in SeqsUpTo(Recs, MaxLen) : fin = Input(recs, NoRaw)
     \/ \E raw \in RawItems("bird", BirdNames) : fin = Input(<<>>, raw)
     \/ \E raw \in RawItems("composio", ComposioNames) : fin = Input(<<>>, raw)
  /\ fout = NoOutput

CallParseBirdTweet ==
  /\ fout = NoOutput /\ fin.raw.api = "bird"
  /\ fout' = Output("parseBirdTweet", "", NoOutput.opts, parseBirdTweet(fin.raw))
  /\ UNCHANGED <<fin, router>>

CallParseTweet ==
  /\ fout = NoOutput /\ fin.raw.api = "composio"
  /\ fout' = Output("parseTweet", "", NoOutput.opts, parseTweet(fin.raw))
  /\ UNCHANGED <<fin, router>>

CallSortBy ==
  /\ fout = NoOutput /\ fin.raw = NoRaw
  /\ \E metric \in SortMetrics :
       fout' = Output("sortBy", metric, NoOutput.opts, Value(sortBy(fin.recs, metric)))
  /\ UNCHANGED <<fin, router>>

CallFilterEngagement ==
  /\ fout = NoOutput /\ fin.raw = NoRaw
  /\ \E ml \in Thresholds, mi \in Thresholds :
       fout' = Output("filterEngagement", "", Opts(ml, mi),
                      Value(filterEngagement(fin.recs, Opts(ml, mi))))
  /\ UNCHANGED <<fin, router>>

CallDedupe ==
  /\ fout = NoOutput /\ fin.raw = NoRaw
  /\ fout' = Output("dedupe", "", NoOutput.opts, Value(dedupe(fin.recs)))
  /\ UNCHANGED <<fin, router>>

NextHelpers ==
  \/ CallParseBirdTweet
  \/ CallParseTweet
  \/ CallSortBy
  \/ CallFilterEngagement
  \/ CallDedupe

SpecHelpers == InitHelpers /\ [][NextHelpers]_vars

\* ------------------------------------------------------ reading the trace
At(e) == {i \in DOMAIN trace : trace[i].ev = e}
Count(e) == Cardinality(At(e))

BirdSkipped == ~birdInstalled
BirdFailed == At("birdFail") # {}
KeyResolved == envKey # NoKey \/ fileKey # NoKey
RequestFailed == \E i \in At("resp") : trace[i].status # "ok"

\* Composio is healthy: a key is there and every response so far is a success
ComposioHealthy == KeyResolved /\ ~RequestFailed

\* the records of the pages received, page after page, as Composio records
RECURSIVE PageRecords(_)
PageRecords(t) ==
  IF t = <<>> THEN <<>>
  ELSE IF Head(t).ev = "resp"
       THEN [i \in 1..Len(Head(t).data) |-> [id |-> Head(t).data[i], src |-> "composio"]]
            \o PageRecords(Tail(t))
       ELSE PageRecords(Tail(t))

NoProviderError == "Neither Bird CLI nor COMPOSIO_API_KEY available"
ListOps == {"search", "thread", "profile"}

\* ------------------------------------------------------------------ claims

\* C1: for search, thread and profile, when Bird is available but its call
\* fails and Composio is healthy, the failure is logged once, the router goes
\* on to Composio (a request follows the log line) and the call returns
\* Composio's records.
C1_BirdFailureFallsBackToComposio ==
  (pc = "done" /\ op \in ListOps /\ birdInstalled /\ BirdFailed /\ ComposioHealthy) =>
    /\ Count("log") = 1
    /\ \E l \in At("log"), r \in At("req") : l < r
    /\ result.kind \in {"tweets", "profile"}
    /\ result.tweets = PageRecords(trace)

C1_Witness ==
  /\ pc = "done" /\ op \in ListOps /\ birdInstalled /\ BirdFailed /\ ComposioHealthy
  /\ Count("req") = 2
  /\ Len(result.tweets) = 2

\* C2: when Bird is unavailable and Composio is healthy, every operation
\* succeeds on Composio's records; Bird is never executed and nothing is
\* logged for it.
C2_UnavailableBirdIsSkipped ==
  (pc = "done" /\ BirdSkipped /\ ComposioHealthy) =>
    /\ At("birdOk") = {} /\ At("birdFail") = {} /\ At("log") = {}
    /\ Count("req") >= 1
    /\ result.kind \in {"tweets", "profile", "tweet", "null"}
    /\ \A i \in DOMAIN result.tweets : result.tweets[i].src = "composio"
    /\ op \in ListOps => result.tweets = PageRecords(trace)

C2_Witness ==
  /\ pc = "done" /\ BirdSkipped /\ ComposioHealthy
  /\ op = "getTweet" /\ result.kind = "tweet"

\* C3 (as claimed, on the operations whose Bird failure reaches the router):
\* if Bird is unavailable or failed, and Composio has no key or its request
\* failed, the call fails with the one aggregated "no provider available"
\* error and not with Composio's own error.
C3_Claimed_AggregatedError ==
  (pc = "done" /\ op \in ListOps /\ (BirdSkipped \/ BirdFailed)
     /\ (~KeyResolved \/ RequestFailed)) =>
    result = Thrown(NoProviderError)

\* C4 (as claimed): getTweet with Bird available, its lookup failing and
\* Composio healthy goes on to Composio and returns the outcome of
\* Composio's lookup.
C4_Claimed_GetTweetFallsBack ==
  (pc = "done" /\ op = "getTweet" /\ birdInstalled /\ BirdFailed /\ ComposioHealthy) =>
    /\ Count("req") >= 1
    /\ result.kind \in {"tweet", "null"}
    /\ \A i \in DOMAIN result.tweets : result.tweets[i].src = "composio"

\* C5: one adapter backs the output of a call. If Bird's call succeeded, no
\* Composio request is made and the output is exactly Bird's records; a
\* Composio request is made only once Bird was found unavailable or its call
\* had failed, Bird is never run after it, and every record then returned is
\* Composio's.
C5_OneAdapterBacksTheOutput ==
  /\ \A r \in At("req") :
       /\ BirdSkipped \/ \E f \in At("birdFail") : f < r
       /\ At("birdOk") = {}
       /\ \A b \in At("birdFail") : b < r
  /\ Count("birdOk") + Count("birdFail") <= 1
  /\ BirdSkipped => (At("birdOk") = {} /\ At("birdFail") = {})
  /\ pc = "done" =>
       /\ \A b \in At("birdOk") :
            /\ At("req") = {}
            /\ result.tweets = [i \in 1..Len(trace[b].data) |->
                                  [id |-> trace[b].data[i], src |-> "bird"]]
       /\ At("req") # {} =>
            \A i \in DOMAIN result.tweets : result.tweets[i].src = "composio"
       /\ \A i, j \in DOMAIN result.tweets : result.tweets[i].src = result.tweets[j].src

C5_Witness ==
  /\ pc = "done" /\ At("birdOk") # {} /\ Len(result.tweets) = 1
  /\ op = "search"

\* C6 (as claimed): with Bird unavailable or failed and no Composio key in
\* the environment or the env file, every operation fails with the
\* configuration error, and no Composio request is issued.
C6_Claimed_ConfigurationError ==
  (pc = "done" /\ (BirdSkipped \/ BirdFailed) /\ ~KeyResolved) =>
    /\ result = Thrown(NoProviderError)
    /\ At("req") = {}

\* the page budget of the call: the caller's page count, or the default of
\* the operation when none is given
Budget ==
  IF op \in {"search", "thread"} /\ arg.pages >= 1 THEN arg.pages
  ELSE IF op = "thread" THEN 2
  ELSE 1

ReqsUpTo(i) == Cardinality({r \in At("req") : r <= i})
OkResp(i) == trace[i].ev = "resp" /\ trace[i].status = "ok"

\* C7: a paged search with budget N makes at most N page requests, requests
\* no page after a response without continuation token, and returns the
\* records of exactly the pages fetched, concatenated in fetch order.
C7_PagingWithinBudgetAndToken ==
  /\ Count("req") <= Budget
  /\ \A i \in At("resp") : \A r \in At("req") :
       (OkResp(i) /\ trace[i].tok = NoToken) => r < i
  /\ (pc = "done" /\ op \in ListOps /\ At("req") # {} /\ ~RequestFailed) =>
       result.tweets = PageRecords(trace)

\* budget 3, a token on page 1 and none on page 2: pages 1 and 2 only
C7_Witness ==
  /\ pc = "done" /\ op = "search" /\ arg.pages = 3
  /\ Count("req") = 2 /\ Count("resp") = 2
  /\ result.tweets = <<[id |-> "a", src |-> "composio"], [id |-> "b", src |-> "composio"]>>

\* C8 (as claimed): after a page with zero records no further page is
\* requested, even when its response carries a token and budget remains.
C8_Claimed_StopsOnEmptyPage ==
  \A i \in At("resp") : \A r \in At("req") :
    (OkResp(i) /\ trace[i].data = <<>>) => r < i

\* C8 (amended): a page with zero records does not stop pagination. When
\* the call has ended, a page with zero records was followed by another
\* page request exactly when its response carried a continuation token and
\* the budget was not used up.
C8_EmptyPageDoesNotStop ==
  pc = "done" =>
    \A i \in At("resp") :
      (OkResp(i) /\ trace[i].data = <<>>) =>
        ((\E r \in At("req") : r > i) <=>
           (trace[i].tok # NoToken /\ ReqsUpTo(i) < Budget))

C8_Witness ==
  /\ pc = "done"
  /\ \E i \in At("resp") :
       /\ OkResp(i) /\ trace[i].data = <<>> /\ trace[i].tok # NoToken
       /\ \E r \in At("req") : r > i

\* C9: the pacing delay comes only between two consecutive page requests of
\* one call: each delay directly follows a page's response and, once the
\* call has ended, is directly followed by the next page request; two
\* requests always have a delay between them; a call that made k >= 1
\* requests made exactly k - 1 delays.
C9_DelayOnlyBetweenPages ==
  /\ \A d \in At("delay") :
       /\ d > 1 /\ trace[d - 1].ev = "resp"
       /\ \E r \in At("req") : r < d
       /\ d < Len(trace) => trace[d + 1].ev = "req"
  /\ \A r \in At("req") :
       (\E q \in At("req") : q < r) => trace[r - 1].ev = "delay"
  /\ pc = "done" =>
       /\ trace[Len(trace)].ev # "delay"
       /\ At("req") # {} => Count("delay") = Count("req") - 1
       /\ At("req") = {} => At("delay") = {}

C9_Witness ==
  /\ pc = "done" /\ Count("req") = 3 /\ Count("delay") = 2

\* the entry of the running search, and whether it is within its TTL
EntryOfCall == cache[<<"search", arg.id, arg.pages>>]
WithinTtl(e) == e.storedAt >= 0 /\ now - e.storedAt <= CacheTtlMin
AdapterInvoked == At("birdOk") # {} \/ At("birdFail") # {} \/ At("req") # {}

\* C10: a search whose entry is within the 15-minute TTL is served from the
\* cache, with no adapter invoked, and returns the stored records verbatim;
\* a search is passed to the router only when its entry is absent or older
\* than the TTL, and the result it fetches overwrites the entry, stamped
\* with the current time.
C10_CacheServesWithinTtl ==
  viaCache =>
    /\ pc \in {"bird", "fallback", "page", "sleep", "done"} =>
         /\ ~WithinTtl(EntryOfCall)
         /\ trace[1].ev = "call"
    /\ (pc = "served" /\ trace[1].ev = "cacheHit") =>
         /\ WithinTtl(EntryOfCall)
         /\ ~AdapterInvoked
         /\ result = Returned("tweets", "", EntryOfCall.records)
    /\ (pc = "served" /\ trace[1].ev = "call" /\ result.kind = "tweets") =>
         /\ AdapterInvoked
         /\ EntryOfCall = [records |-> result.tweets, storedAt |-> now]

\* a hit on an entry exactly as old as the TTL
C10_Witness ==
  /\ viaCache /\ pc = "served" /\ trace[1].ev = "cacheHit"
  /\ now - EntryOfCall.storedAt = CacheTtlMin
  /\ Len(result.tweets) = 1

\* C11 (as claimed): the aggregated result of a search, thread or profile
\* holds at most one record per id, also when the same id came back on two
\* pages.
C11_Claimed_OneRecordPerId ==
  (pc = "done" /\ op \in ListOps /\ result.kind # "error") =>
    \A i, j \in DOMAIN result.tweets :
      result.tweets[i].id = result.tweets[j].id => i = j

\* C12 (as claimed): a page whose payload is absent or malformed (no payload
\* object, no item list, or an item list that is not an array) counts as
\* zero records and does not fail the call: with no transport or HTTP
\* failure the call returns the records of its pages.
C12_Claimed_MalformedPayloadIsEmptyPage ==
  (pc = "done" /\ op \in ListOps /\ At("req") # {}
     /\ \A i \in At("resp") : trace[i].status \notin {"transport", "http"}) =>
    /\ result.kind # "error"
    /\ result.tweets = PageRecords(trace)

Called(fn) == fout.fn = fn
ZeroMetrics == Metrics(0, 0, 0, 0, 0, 0)

\* C13 (as claimed): for Bird's and for Composio's normalizer, an item
\* without metrics block is normalized to a record whose six metrics are
\* all 0, never to an error.
C13_Claimed_MissingMetricsAreZero ==
  ((Called("parseBirdTweet") \/ Called("parseTweet")) /\ ~fin.raw.hasMetrics) =>
    /\ fout.status = "ok"
    /\ Len(fout.value) = 1
    /\ fout.value[1].metrics = ZeroMetrics

\* the indices of x that hold the first record of their id
FirstOfId(x) == {i \in DOMAIN x : \A j \in 1..(i - 1) : x[j].id # x[i].id}
IdsOf(x) == {x[i].id : i \in DOMAIN x}

\* C14: dedupe(x) is the subsequence of x made of the first record of each
\* id, in input order: every id of x occurs exactly once in the output, and
\* of two records with one id the earlier is the one retained.
C14_DedupeKeepsFirstOccurrences ==
  Called("dedupe") =>
    /\ fout.status = "ok"
    /\ fout.value = SubSeqAt(fin.recs, FirstOfId(fin.recs))
    /\ IdsOf(fout.value) = IdsOf(fin.recs)
    /\ \A i, j \in DOMAIN fout.value : fout.value[i].id = fout.value[j].id => i = j

\* <<a(1), b, a(0)>>: the record of a with one like is kept, the later dropped
C14_Witness ==
  /\ Called("dedupe")
  /\ fin.recs = <<Rec("a", 1, 0), Rec("b", 0, 0), Rec("a", 0, 0)>>
  /\ fout.value = <<Rec("a", 1, 0), Rec("b", 0, 0)>>

\* C15: dedupe is idempotent: dedupe(dedupe(x)) = dedupe(x) for every
\* record sequence x.
C15_DedupeIsIdempotent ==
  Called("dedupe") => dedupe(fout.value) = fout.value

\* an input on which dedupe dropped two records
C15_Witness ==
  /\ Called("dedupe")
  /\ Len(fin.recs) = 3 /\ Len(fout.value) = 1
  /\ dedupe(fout.value) = fout.value

\* where record i of x belongs in a stable descending order on a metric:
\* behind the records with more of it and the earlier records with as much
RankIn(x, i, metric) ==
  1 + Cardinality({j \in DOMAIN x :
                     \/ x[j].metrics[metric] > x[i].metrics[metric]
                     \/ x[j].metrics[metric] = x[i].metrics[metric] /\ j < i})

\* C16: sortBy(records, metric) returns a permutation of its input in
\* non-increasing order of the metric, in which records with equal values
\* keep their input order, and the call leaves the input sequence unchanged.
C16_SortByIsStableDescending ==
  [][(~Called("sortBy") /\ fout'.fn = "sortBy") =>
       /\ fin' = fin
       /\ fout'.status = "ok"
       /\ Len(fout'.value) = Len(fin.recs)
       /\ \A i \in DOMAIN fin.recs :
            fout'.value[RankIn(fin.recs, i, fout'.metric)] = fin.recs[i]
       /\ \A i, j \in DOMAIN fout'.value :
            i < j => fout'.value[i].metrics[fout'.metric] >= fout'.value[j].metrics[fout'.metric]
    ]_vars

\* sorted by likes: the record with a like moves to the front, the two
\* without keep their order
C16_Witness ==
  /\ Called("sortBy") /\ fout.metric = "likes"
  /\ fin.recs = <<Rec("b", 0, 0), Rec("a", 0, 1), Rec("a", 1, 0)>>
  /\ fout.value = <<Rec("a", 1, 0), Rec("b", 0, 0), Rec("a", 0, 1)>>

\* a record meets the thresholds that are supplied
Meets(t, opts) ==
  /\ opts.minLikes # NotSupplied => t.metrics.likes >= opts.minLikes
  /\ opts.minImpressions # NotSupplied => t.metrics.impressions >= opts.minImpressions

\* C17: filterEngagement(records, thresholds) returns, in input order,
\* exactly the records that meet every supplied threshold, a supplied
\* threshold of 0 included; with no threshold supplied it returns its input
\* unchanged.
C17_FilterKeepsRecordsMeetingThresholds ==
  Called("filterEngagement") =>
    /\ fout.status = "ok"
    /\ fout.value = SubSeqAt(fin.recs, {i \in DOMAIN fin.recs : Meets(fin.recs[i], fout.opts)})
    /\ fout.opts = Opts(NotSupplied, NotSupplied) => fout.value = fin.recs

\* minLikes 1 and minImpressions 0: the record exactly at the likes
\* threshold is kept, the one below it dropped
C17_Witness ==
  /\ Called("filterEngagement") /\ fout.opts = Opts(1, 0)
  /\ fin.recs = <<Rec("a", 0, 1), Rec("b", 1, 0)>>
  /\ fout.value = <<Rec("b", 1, 0)>>

\* C18 (as claimed): the page budget a search applies lies between 1 and
\* DocMaxPages, and is 1 when the caller gives no page count: no search
\* issues more than DocMaxPages page requests.
C18_Claimed_BudgetWithinDocumentedRange ==
  op = "search" =>
    /\ Count("req") <= DocMaxPages
    /\ pc \in {"page", "sleep"} =>
         /\ pages \in 1..DocMaxPages
         /\ arg.pages = NotGiven => pages = 1

\* C19: a failed adapter is not retried within the call: Bird is executed
\* at most once per call, and once a Composio request has failed no further
\* Composio request is issued in that call.
C19_FailedAdapterIsNotRetried ==
  /\ Count("birdOk") + Count("birdFail") <= 1
  /\ \A i \in At("resp") :
       trace[i].status # "ok" => \A r \in At("req") : r < i
  /\ Cardinality({i \in At("resp") : trace[i].status # "ok"}) <= 1

\* Bird failed once, Composio's first page arrived and its second request
\* failed: the call ended there
C19_Witness ==
  /\ pc = "done" /\ op = "search"
  /\ Count("birdFail") = 1 /\ Count("req") = 2
  /\ trace[Len(trace)].ev = "resp" /\ trace[Len(trace)].status = "http"
  /\ result = Thrown("http")

\* the last page request before position r of the trace
PrevReq(r) == CHOOSE q \in At("req") : q < r /\ \A p \in At("req") : p < r => p <= q

\* C20: pagination is sequential and token-driven: the first page request
\* carries no continuation token; every request is directly followed by its
\* response; each later request comes after the response to the previous
\* request and carries exactly the token that response returned.
C20_RequestsCarryThePreviousToken ==
  \A r \in At("req") :
    /\ r < Len(trace) /\ trace[r + 1].ev = "resp"
    /\ IF \A q \in At("req") : q >= r
       THEN trace[r].tok = NoToken
       ELSE /\ OkResp(PrevReq(r) + 1)
            /\ trace[PrevReq(r) + 1].tok # NoToken
            /\ trace[r].tok = trace[PrevReq(r) + 1].tok

\* three page requests, carrying no token, the token of page 2 and the
\* token of page 3
C20_Witness ==
  /\ pc = "done" /\ Count("req") = 3
  /\ \E r1, r2, r3 \in At("req") :
       /\ r1 < r2 /\ r2 < r3
       /\ trace[r1].tok = NoToken
       /\ trace[r2].tok = TokenAfter(0)
       /\ trace[r3].tok = TokenAfter(1)

\* C21: every request sent to Composio carries a max_results of at least
\* MinCap, whatever cap the caller gave (absent, 0 or below MinCap are
\* raised to MinCap); the requests of a profile carry at most
\* ProfileMaxCount.
C21_RequestCapAtLeastTen ==
  \A r \in At("req") :
    /\ trace[r].cap >= MinCap
    /\ op = "profile" => trace[r].cap <= ProfileMaxCount
    /\ (op \in {"search", "profile"} /\ arg.count > ProfileMaxCount) =>
         trace[r].cap = IF op = "profile" THEN ProfileMaxCount ELSE arg.count
    /\ (op = "search" /\ arg.count < MinCap) => trace[r].cap = MinCap

\* a search asked for 5 results per page sent its request with 10
C21_Witness ==
  /\ pc = "done" /\ op = "search" /\ arg.count = 5
  /\ \E r \in At("req") : trace[r].cap = MinCap

FailedResps == {i \in At("resp") : trace[i].status # "ok"}

\* C22: a paged Composio search is all-or-nothing with respect to request
\* failures: if the request for any page fails, the call raises that
\* request's error and returns none of the records of the earlier pages.
C22_FailedPageFailsTheWholeSearch ==
  \A i \in FailedResps :
    /\ pc = "done"
    /\ result.kind = "error"
    /\ result.err = trace[i].status
    /\ result.tweets = <<>>

\* page 1 brought a record and a token, the request for page 2 failed
C22_Witness ==
  /\ pc = "done" /\ op = "search" /\ Count("req") = 2
  /\ \E i \in At("resp") : OkResp(i) /\ trace[i].data = <<"a">>
  /\ FailedResps # {}
  /\ result = Thrown("transport")

\* C23 (as claimed, on the lookups Composio answers): getTweet(id) returns
\* either nothing or a record whose id is the requested id, never a record
\* with another id.
C23_Claimed_GetTweetReturnsRequestedId ==
  (pc = "done" /\ op = "getTweet" /\ At("req") # {} /\ result.kind # "error") =>
    \/ result.kind = "null" /\ result.tweets = <<>>
    \/ /\ result.kind = "tweet" /\ Len(result.tweets) = 1
       /\ result.tweets[1].id = arg.id

BirdRuns == Count("birdOk") + Count("birdFail")
Completed ==
  /\ pc = "done"
  /\ result.kind # "none"
  /\ BirdRuns <= 1
  /\ Count("req") <= Budget

\* C24: provided every adapter call resolves, every call of search, thread,
\* profile or getTweet that was started eventually completes with a result
\* or an error, having executed Bird at most once and made at most as many
\* Composio requests as its page budget.
C24_EveryCallCompletes ==
  (pc # "idle") ~> Completed

\* a thread call that ran Bird, fell back and used its whole budget of two
C24_Witness ==
  /\ Completed /\ op = "thread" /\ arg.pages = NotGiven
  /\ BirdRuns = 1 /\ Count("req") = 2
====
